---- MODULE Spec2Model ----
(***************************************************************************)
(* A model of the traefik_dynamic_public_whitelist provider plugin         *)
(* (src/traefik_dynamic_public_whitelist.go).                              *)
(*                                                                         *)
(* Strings are sequences of tokens (one-character strings, or the lexemes  *)
(* of an IP address text), so that trimming, lower-casing, splitting,      *)
(* parsing and formatting are computed and not assumed.                    *)
(***************************************************************************)
EXTENDS Integers, Sequences, FiniteSets, TLC

VARIABLES
    config,      \* the *Config handed to New
    newResult,   \* what New returned: [called, err, provider]
    cidrIn,      \* the input of ipv6ToCIDR: its text, and what the text denotes
    cidrOut,     \* what ipv6ToCIDR returned for cidrIn
    cidrAgain,   \* what ipv6ToCIDR returned for the network address of cidrOut
    provider,    \* the Provider that New built
    refresh,     \* the last GenerateConfiguration call: [n, done, world, result]
    cancel,      \* Provider.cancel: 0 (nil), or the loop whose context it cancels
    ctxDone,     \* per loop: its context is cancelled
    pc,          \* per loop: where the goroutine of loadConfiguration stands
    pending,     \* per loop: the configuration it is sending on cfgChan
    tickPending, \* per loop: a tick waits in ticker.C (capacity 1)
    attempts,    \* per loop: the emitConfiguration calls it has begun
    logged,      \* the error the last emitConfiguration call logged ("nil": none)
    earlyStop,   \* per loop: its context was cancelled before its ticker first fired
    delivered,   \* the sends on cfgChan that completed, in order: [loop, attempt]
    received,    \* the last value the consumer received from cfgChan
    consumer,    \* "receiving", or "gone" (nobody reads cfgChan any more)
    stopResult   \* how the last Stop call ended: "none" (no call yet), "nil", "panic"

newVars     == <<config, newResult>>
cidrVars    == <<cidrIn, cidrOut, cidrAgain>>
refreshVars == <<provider, refresh>>
loopVars    == <<cancel, ctxDone, pc, pending, tickPending, attempts, logged, earlyStop,
                 delivered, received, consumer, stopResult>>

vars == <<newVars, cidrVars, refreshVars, loopVars>>

(***************************************************************************)
(* strings                                                                 *)
(***************************************************************************)

\* unicode.IsSpace, restricted to the white space the inputs use
Space == {" ", "\t", "\n", "\r"}

RECURSIVE TrimLeft(_)
TrimLeft(s) ==
    IF s # <<>> /\ Head(s) \in Space THEN TrimLeft(Tail(s)) ELSE s

RECURSIVE TrimRight(_)
TrimRight(s) ==
    IF s # <<>> /\ s[Len(s)] \in Space
    THEN TrimRight(SubSeq(s, 1, Len(s) - 1))
    ELSE s

\* strings.TrimSpace
TrimSpace(s) == TrimRight(TrimLeft(s))

UpperCase ==
    <<"A","B","C","D","E","F","G","H","I","J","K","L","M",
      "N","O","P","Q","R","S","T","U","V","W","X","Y","Z">>

LowerCase ==
    <<"a","b","c","d","e","f","g","h","i","j","k","l","m",
      "n","o","p","q","r","s","t","u","v","w","x","y","z">>

LowerChar(c) ==
    IF \E i \in 1..Len(UpperCase) : UpperCase[i] = c
    THEN LowerCase[CHOOSE i \in 1..Len(UpperCase) : UpperCase[i] = c]
    ELSE c

\* strings.ToLower
ToLower(s) == [i \in 1..Len(s) |-> LowerChar(s[i])]

\* normalizeProviderName
normalizeProviderName(name) == ToLower(TrimSpace(name))

\* strings.Split(s, sep) for a one-token separator: always at least one piece
RECURSIVE SplitAcc(_, _, _)
SplitAcc(s, sep, cur) ==
    IF s = <<>> THEN <<cur>>
    ELSE IF Head(s) = sep THEN <<cur>> \o SplitAcc(Tail(s), sep, <<>>)
    ELSE SplitAcc(Tail(s), sep, Append(cur, Head(s)))

Split(s, sep) == SplitAcc(s, sep, <<>>)

(***************************************************************************)
(* constants of the program                                                *)
(***************************************************************************)

providerCloudflare == <<"c","l","o","u","d","f","l","a","r","e">>
providerFastly     == <<"f","a","s","t","l","y">>
providerCloudfront == <<"c","l","o","u","d","f","r","o","n","t">>
providerCustom     == <<"c","u","s","t","o","m">>

defaultPollInterval == <<"3","0","0","s">>

supportedProviders ==
    {providerCloudflare, providerFastly, providerCloudfront, providerCustom}

(***************************************************************************)
(* time.ParseDuration: an optional sign, then "0", or one or more groups   *)
(* of decimal digits followed by a unit.  Fractions are left out (no input *)
(* of the model holds a "."); the value is kept in milliseconds.           *)
(***************************************************************************)

Digits == <<"0","1","2","3","4","5","6","7","8","9">>

IsDigit(c) == \E i \in 1..Len(Digits) : Digits[i] = c

DigitValue(c) == (CHOOSE i \in 1..Len(Digits) : Digits[i] = c) - 1

RECURSIVE DigitPrefix(_)
DigitPrefix(s) ==
    IF s # <<>> /\ IsDigit(Head(s)) THEN <<Head(s)>> \o DigitPrefix(Tail(s)) ELSE <<>>

RECURSIVE UnitPrefix(_)
UnitPrefix(s) ==
    IF s # <<>> /\ ~IsDigit(Head(s)) /\ Head(s) # "."
    THEN <<Head(s)>> \o UnitPrefix(Tail(s))
    ELSE <<>>

RECURSIVE DecimalValue(_, _)
DecimalValue(ds, acc) ==
    IF ds = <<>> THEN acc ELSE DecimalValue(Tail(ds), acc * 10 + DigitValue(Head(ds)))

\* time.unitMap, in milliseconds ("ns" and "us" are below the model's resolution)
unitMap == {<<<<"m","s">>, 1>>, <<<<"s">>, 1000>>, <<<<"m">>, 60000>>, <<<<"h">>, 3600000>>}

IsUnit(u) == \E e \in unitMap : e[1] = u

UnitValue(u) == (CHOOSE e \in unitMap : e[1] = u)[2]

RECURSIVE ParseGroups(_, _)

ParseUnit(ds, u, rest, acc) ==
    IF ds = <<>> \/ ~IsUnit(u)
    THEN [ok |-> FALSE, d |-> 0]
    ELSE ParseGroups(SubSeq(rest, Len(u) + 1, Len(rest)),
                     acc + DecimalValue(ds, 0) * UnitValue(u))

ParseNumber(s, ds, acc) ==
    ParseUnit(ds, UnitPrefix(SubSeq(s, Len(ds) + 1, Len(s))),
              SubSeq(s, Len(ds) + 1, Len(s)), acc)

ParseGroups(s, acc) ==
    IF s = <<>> THEN [ok |-> TRUE, d |-> acc] ELSE ParseNumber(s, DigitPrefix(s), acc)

Negate(g) == IF g.ok THEN [ok |-> TRUE, d |-> 0 - g.d] ELSE g

ParseUnsigned(body) ==
    IF body = <<"0">> THEN [ok |-> TRUE, d |-> 0]
    ELSE IF body = <<>> THEN [ok |-> FALSE, d |-> 0]
    ELSE ParseGroups(body, 0)

ParseDuration(s) ==
    IF s # <<>> /\ Head(s) = "-" THEN Negate(ParseUnsigned(Tail(s)))
    ELSE IF s # <<>> /\ Head(s) = "+" THEN ParseUnsigned(Tail(s))
    ELSE ParseUnsigned(s)

(***************************************************************************)
(* New                                                                     *)
(***************************************************************************)

NoProvider ==
    [providerName |-> <<>>, pollInterval |-> 0, ipv4Resolver |-> <<>>,
     ipv6Resolver |-> <<>>, whitelistIPv6 |-> FALSE,
     additionalSourceRange |-> <<>>, ipStrategy |-> 0]

NewFailed(e) == [err |-> e, provider |-> NoProvider]

\* a slip: the IPv6 resolver is not asked for
NewCustomChecksV4Only(c) ==
    IF TrimSpace(c.IPv4Resolver) = <<>>
    THEN "custom provider requires an ipv4Resolver"
    ELSE "nil"

NewCustomChecks(c) ==
    IF TrimSpace(c.IPv4Resolver) = <<>>
    THEN "custom provider requires an ipv4Resolver"
    ELSE IF c.WhitelistIPv6 /\ TrimSpace(c.IPv6Resolver) = <<>>
    THEN "custom provider requires an ipv6Resolver when whitelistIPv6 is true"
    ELSE "nil"

NewProvider(c, pi, providerName) ==
    IF ~pi.ok THEN NewFailed("time: invalid duration")
    ELSE IF providerName = <<>> THEN NewFailed("provider is required")
    ELSE IF providerName \notin supportedProviders THEN NewFailed("unsupported provider")
    ELSE IF providerName = providerCustom /\ NewCustomChecks(c) # "nil"
    THEN NewFailed(NewCustomChecks(c))
    ELSE [err |-> "nil",
          provider |->
            [providerName |-> providerName,
             pollInterval |-> pi.d,
             ipv4Resolver |-> c.IPv4Resolver,
             ipv6Resolver |-> c.IPv6Resolver,
             whitelistIPv6 |-> c.WhitelistIPv6,
             additionalSourceRange |-> c.AdditionalSourceRange,
             ipStrategy |-> c.IPStrategy]]

New(c) ==
    NewProvider(c,
                ParseDuration(IF TrimSpace(c.PollInterval) = <<>>
                              THEN defaultPollInterval
                              ELSE c.PollInterval),
                normalizeProviderName(c.Provider))

\* Provider.Init
ProviderInit(p) ==
    IF p.pollInterval <= 0 THEN "poll interval must be greater than 0" ELSE "nil"

(***************************************************************************)
(* the configurations New is tried on                                      *)
(***************************************************************************)

ProviderInputs ==
    { <<>>, <<" ">>,
      providerCloudflare, providerFastly, providerCloudfront, providerCustom,
      <<" ","C","l","o","u","d","f","l","a","r","e","\n">>,
      <<"F","A","S","T","L","Y">>,
      <<"C","u","s","t","o","m"," ">>,
      <<"a","k","a","m","a","i">>,
      <<"c","l","o","u","d"," ","f","l","a","r","e">>,
      providerCloudflare \o <<",">> \o providerFastly,
      providerCloudfront \o <<","," ">> \o providerCustom }

PollIntervalInputs ==
    { <<>>, <<" ">>, <<"1","s">>, <<"1","0","m">>, <<"1","m","3","0","s">>,
      <<"0","s">>, <<"0">>, <<"-","5","s">>, <<"1","0">>, <<"s","o","o","n">> }

Resolver4 == <<"h","t","t","p",":","/","/","v","4">>
Resolver6 == <<"h","t","t","p",":","/","/","v","6">>

ResolverInputs4 == { <<>>, <<" ">>, Resolver4 }
ResolverInputs6 == { <<>>, <<"\t">>, Resolver6 }

Static1 == <<"127.0.0.1/32">>
Static2 == <<"192.168.0.24">>

AdditionalInputs == { <<>>, <<Static1, Static2>>, <<<<"203.0.113.0/25">>, Static1, <<"203.0.113.0/25">>>> }

Configs ==
    [Provider : ProviderInputs, PollInterval : PollIntervalInputs,
     IPv4Resolver : ResolverInputs4, IPv6Resolver : ResolverInputs6,
     WhitelistIPv6 : BOOLEAN, AdditionalSourceRange : AdditionalInputs,
     IPStrategy : {0, 1}]

(***************************************************************************)
(* IP addresses (package net).  An IP is nil (<<>>) or sixteen bytes, kept *)
(* as eight 16-bit groups.  The text of an address is lexed into groups,   *)
(* ":" "::" and "." tokens.                                                *)
(***************************************************************************)

\* the texts of the 16-bit groups and of the decimal bytes the model uses:
\* every group two of these bytes make has a text, and back
HexEntries ==
    { [text |-> "0", val |-> 0], [text |-> "1", val |-> 1],
      [text |-> "ff", val |-> 255], [text |-> "100", val |-> 256],
      [text |-> "101", val |-> 257], [text |-> "1ff", val |-> 511],
      [text |-> "ff00", val |-> 65280], [text |-> "ff01", val |-> 65281],
      [text |-> "ffff", val |-> 65535] }

DecEntries ==
    { [text |-> "0", val |-> 0], [text |-> "1", val |-> 1],
      [text |-> "255", val |-> 255] }

IsHexText(t) == \E e \in HexEntries : e.text = t
HexValue(t)  == (CHOOSE e \in HexEntries : e.text = t).val
HexText(v)   == (CHOOSE e \in HexEntries : e.val = v).text
IsDecText(t) == \E e \in DecEntries : e.text = t
DecValue(t)  == (CHOOSE e \in DecEntries : e.text = t).val
DecText(v)   == (CHOOSE e \in DecEntries : e.val = v).text

nilIP == <<>>

v4InV6Prefix == <<0, 0, 0, 0, 0, 65535>>

\* net.IPv4(a, b, c, d): the 16-byte form of an IPv4 address
IPv4(a, b, c, d) == v4InV6Prefix \o <<a * 256 + b, c * 256 + d>>

IsDottedQuad(s) ==
    /\ Len(s) = 7
    /\ \A i \in {1, 3, 5, 7} : IsDecText(s[i])
    /\ \A i \in {2, 4, 6} : s[i] = "."

\* parseIPv4
parseIPv4(s) ==
    IF IsDottedQuad(s)
    THEN IPv4(DecValue(s[1]), DecValue(s[3]), DecValue(s[5]), DecValue(s[7]))
    ELSE nilIP

\* a ":"-separated list of groups, the last of which may be a dotted quad
RECURSIVE ColonList(_)
ColonList(s) ==
    IF s = <<>> THEN [ok |-> FALSE, groups |-> <<>>]
    ELSE IF IsDottedQuad(s)
    THEN [ok |-> TRUE, groups |-> SubSeq(parseIPv4(s), 7, 8)]
    ELSE IF ~IsHexText(Head(s)) THEN [ok |-> FALSE, groups |-> <<>>]
    ELSE IF Len(s) = 1 THEN [ok |-> TRUE, groups |-> <<HexValue(Head(s))>>]
    ELSE IF s[2] # ":" THEN [ok |-> FALSE, groups |-> <<>>]
    ELSE LET rest == ColonList(SubSeq(s, 3, Len(s)))
         IN  IF rest.ok
             THEN [ok |-> TRUE, groups |-> <<HexValue(Head(s))>> \o rest.groups]
             ELSE rest

Zeros(n) == [i \in 1..n |-> 0]

IPv6Groups == 8

\* the groups on one side of "::" (none, when the side is empty)
EllipsisSide(side) ==
    IF side = <<>> THEN [ok |-> TRUE, groups |-> <<>>] ELSE ColonList(side)

\* a dotted quad may only end the text
EndsDotted(s) == Len(s) >= 7 /\ IsDottedQuad(SubSeq(s, Len(s) - 6, Len(s)))

Expand(l, r) ==
    IF l.ok /\ r.ok /\ Len(l.groups) + Len(r.groups) < IPv6Groups
    THEN l.groups \o Zeros(IPv6Groups - Len(l.groups) - Len(r.groups)) \o r.groups
    ELSE nilIP

ExpandAt(s, e) ==
    IF EndsDotted(SubSeq(s, 1, e - 1)) THEN nilIP
    ELSE Expand(EllipsisSide(SubSeq(s, 1, e - 1)), EllipsisSide(SubSeq(s, e + 1, Len(s))))

AllGroups(l) == IF l.ok /\ Len(l.groups) = IPv6Groups THEN l.groups ELSE nilIP

EllipsisAt(s) == { i \in 1..Len(s) : s[i] = "::" }

\* parseIPv6: at most one "::", which stands for at least one group
parseIPv6(s) ==
    IF EllipsisAt(s) = {} THEN AllGroups(ColonList(s))
    ELSE IF Cardinality(EllipsisAt(s)) > 1 THEN nilIP
    ELSE ExpandAt(s, CHOOSE i \in EllipsisAt(s) : TRUE)

SeparatorsAt(s) == { i \in 1..Len(s) : s[i] \in {".", ":", "::"} }

FirstOf(S) == CHOOSE j \in S : \A k \in S : j <= k

\* net.ParseIP: the first "." or ":" decides the family
ParseIP(s) ==
    IF SeparatorsAt(s) = {} THEN nilIP
    ELSE IF s[FirstOf(SeparatorsAt(s))] = "." THEN parseIPv4(s)
    ELSE parseIPv6(s)

\* IP.To4: nil unless the address is an IPv4 address in its 16-byte form
To4(ip) ==
    IF Len(ip) = IPv6Groups /\ SubSeq(ip, 1, 6) = v4InV6Prefix
    THEN SubSeq(ip, 7, 8)
    ELSE nilIP

\* IP.To16
To16(ip) == IF Len(ip) = IPv6Groups THEN ip ELSE nilIP

RECURSIVE Pow2(_)
Pow2(n) == IF n = 0 THEN 1 ELSE 2 * Pow2(n - 1)

GroupBits == 16

\* the bits of group i (1..8) that net.CIDRMask(ones, 128) keeps
KeptBits(ones, i) ==
    LET k == ones - GroupBits * (i - 1)
    IN  IF k < 0 THEN 0 ELSE IF k > GroupBits THEN GroupBits ELSE k

\* a slip: the mask is one group too wide
MaskTooWide(ip, ones) ==
    [i \in 1..Len(ip) |-> ip[i] - (ip[i] % Pow2(GroupBits - KeptBits(ones + GroupBits, i)))]

\* IP.Mask(net.CIDRMask(ones, 128)) on a 16-byte address
Mask(ip, ones) ==
    [i \in 1..Len(ip) |-> ip[i] - (ip[i] % Pow2(GroupBits - KeptBits(ones, i)))]

\* the length of the run of zero groups of ip that starts at group i
RECURSIVE ZeroRun(_, _)
ZeroRun(ip, i) ==
    IF i <= Len(ip) /\ ip[i] = 0 THEN 1 + ZeroRun(ip, i + 1) ELSE 0

LongestRuns(ip) ==
    { i \in 1..Len(ip) :
        /\ ZeroRun(ip, i) >= 2
        /\ \A j \in 1..Len(ip) : ZeroRun(ip, j) <= ZeroRun(ip, i) }

\* the first longest run of at least two zero groups: its start, or 0
EllipsisStart(ip) == IF LongestRuns(ip) = {} THEN 0 ELSE FirstOf(LongestRuns(ip))

RECURSIVE FormatGroups(_, _, _)
FormatGroups(ip, i, e0) ==
    IF i > Len(ip) THEN <<>>
    ELSE IF i = e0
    THEN <<"::">> \o
         (IF i + ZeroRun(ip, i) > Len(ip) THEN <<>>
          ELSE <<HexText(ip[i + ZeroRun(ip, i)])>>
               \o FormatGroups(ip, i + ZeroRun(ip, i) + 1, e0))
    ELSE (IF i > 1 THEN <<":">> ELSE <<>>) \o <<HexText(ip[i])>>
         \o FormatGroups(ip, i + 1, e0)

FormatDotted(v4) ==
    <<DecText(v4[1] \div 256), ".", DecText(v4[1] % 256), ".",
      DecText(v4[2] \div 256), ".", DecText(v4[2] % 256)>>

\* IP.String
String(ip) ==
    IF ip = nilIP THEN <<"<nil>">>
    ELSE IF To4(ip) # nilIP THEN FormatDotted(To4(ip))
    ELSE FormatGroups(ip, 1, EllipsisStart(ip))

MaskSize == 64

\* strconv.Itoa(MaskSize)
MaskSizeText == <<"6", "4">>

CidrOfIP(ip) ==
    IF To4(ip) # nilIP
    THEN [cidr |-> <<>>, err |-> "input is not an IPv6 address"]
    ELSE IF To16(ip) = nilIP
    THEN [cidr |-> <<>>, err |-> "input is not an IPv6 address"]
    ELSE [cidr |-> String(Mask(To16(ip), MaskSize)) \o <<"/">> \o MaskSizeText,
          err  |-> "nil"]

ipv6ToCIDR(ipv6) == CidrOfIP(ParseIP(ipv6))

(***************************************************************************)
(* the remote fetcher and the four provider strategies                     *)
(***************************************************************************)

awsCloudfrontLabel == "CLOUDFRONT"

cloudflareIPv4Endpoint == <<"https://www.cloudflare.com/ips-v4/">>
cloudflareIPv6Endpoint == <<"https://www.cloudflare.com/ips-v6/">>
fastlyEndpoint         == <<"https://api.fastly.com/public-ip-list">>
awsIPRangesEndpoint    == <<"https://ip-ranges.amazonaws.com/ip-ranges.json">>

EmptyDoc ==
    [addresses |-> <<>>, ipv6_addresses |-> <<>>, prefixes |-> <<>>, ipv6_prefixes |-> <<>>]

\* a response body: plain text, or a JSON document (kept decoded)
TextBody(t) == [kind |-> "text", text |-> t, doc |-> EmptyDoc]
JsonBody(d) == [kind |-> "json", text |-> <<>>, doc |-> d]

NoBody == TextBody(<<>>)

Unreachable == [fail |-> TRUE, status |-> 0, body |-> NoBody]

Status(code, b) == [fail |-> FALSE, status |-> code, body |-> b]

\* a slip: the request is not bound to the context
RespondWithoutContext(done, resp) ==
    IF resp.fail THEN [body |-> NoBody, err |-> "transport error"]
    ELSE IF resp.status < 200 \/ resp.status >= 300
    THEN [body |-> NoBody, err |-> "unexpected status code"]
    ELSE [body |-> resp.body, err |-> "nil"]

Respond(done, resp) ==
    IF done THEN [body |-> NoBody, err |-> "context canceled"]
    ELSE IF resp.fail THEN [body |-> NoBody, err |-> "transport error"]
    ELSE IF resp.status < 200 \/ resp.status >= 300
    THEN [body |-> NoBody, err |-> "unexpected status code"]
    ELSE [body |-> resp.body, err |-> "nil"]

\* defaultHTTPGetter: client.Do under ctx, then the status check, then the body
httpGet(done, world, url) ==
    Respond(done, IF url \in DOMAIN world THEN world[url] ELSE Unreachable)

\* the lines of parseLineList that survive: trimmed, blank ones dropped
RECURSIVE KeepLines(_)
KeepLines(lines) ==
    IF lines = <<>> THEN <<>>
    ELSE IF TrimSpace(Head(lines)) = <<>> THEN KeepLines(Tail(lines))
    ELSE <<TrimSpace(Head(lines))>> \o KeepLines(Tail(lines))

parseLineList(data) == KeepLines(Split(data, "\n"))

\* json.Unmarshal into the payload struct of the caller
Unmarshal(body) ==
    IF body.kind = "json" THEN [ok |-> TRUE, payload |-> body.doc]
    ELSE [ok |-> FALSE, payload |-> EmptyDoc]

Failed(e, reqs) == [ranges |-> <<>>, err |-> e, requests |-> reqs]

Fetched(ranges, reqs) == [ranges |-> ranges, err |-> "nil", requests |-> reqs]

CloudflareV6(ranges, r6, reqs) ==
    IF r6.err # "nil" THEN Failed(r6.err, reqs)
    ELSE Fetched(ranges \o parseLineList(r6.body.text), reqs)

\* a slip: the IPv6 list is fetched whatever whitelistIPv6 says
CloudflareV4LinesAlwaysV6(p, done, world, ranges, reqs) ==
    IF Len(ranges) = 0 THEN Failed("cloudflare: empty IPv4 range list", reqs)
    ELSE CloudflareV6(ranges, httpGet(done, world, cloudflareIPv6Endpoint),
                      Append(reqs, cloudflareIPv6Endpoint))

CloudflareV4Lines(p, done, world, ranges, reqs) ==
    IF Len(ranges) = 0 THEN Failed("cloudflare: empty IPv4 range list", reqs)
    ELSE IF p.whitelistIPv6
    THEN CloudflareV6(ranges, httpGet(done, world, cloudflareIPv6Endpoint),
                      Append(reqs, cloudflareIPv6Endpoint))
    ELSE Fetched(ranges, reqs)

CloudflareV4(p, done, world, r4, reqs) ==
    IF r4.err # "nil" THEN Failed(r4.err, reqs)
    ELSE CloudflareV4Lines(p, done, world, parseLineList(r4.body.text), reqs)

fetchCloudflareRanges(p, done, world) ==
    CloudflareV4(p, done, world, httpGet(done, world, cloudflareIPv4Endpoint),
                 <<cloudflareIPv4Endpoint>>)

\* a slip: the emptiness of the IPv4 list is left to buildSourceRanges
FastlyPayloadUnchecked(p, payload, reqs) ==
    IF p.whitelistIPv6
    THEN Fetched(payload.addresses \o payload.ipv6_addresses, reqs)
    ELSE Fetched(payload.addresses, reqs)

FastlyPayload(p, payload, reqs) ==
    IF Len(payload.addresses) = 0 THEN Failed("fastly: empty IPv4 addresses list", reqs)
    ELSE IF p.whitelistIPv6
    THEN Fetched(payload.addresses \o payload.ipv6_addresses, reqs)
    ELSE Fetched(payload.addresses, reqs)

FastlyDecoded(p, decoded, reqs) ==
    IF ~decoded.ok THEN Failed("fastly: invalid JSON", reqs)
    ELSE FastlyPayload(p, decoded.payload, reqs)

FastlyResponse(p, r, reqs) ==
    IF r.err # "nil" THEN Failed(r.err, reqs)
    ELSE FastlyDecoded(p, Unmarshal(r.body), reqs)

fetchFastlyRanges(p, done, world) ==
    FastlyResponse(p, httpGet(done, world, fastlyEndpoint), <<fastlyEndpoint>>)

\* a slip: the service label is compared whatever its case
RECURSIVE CloudfrontPrefixesAnyCase(_)
CloudfrontPrefixesAnyCase(records) ==
    IF records = <<>> THEN <<>>
    ELSE (IF Head(records).service \in {"CLOUDFRONT", "cloudfront"}
          THEN <<TrimSpace(Head(records).prefix)>>
          ELSE <<>>) \o CloudfrontPrefixesAnyCase(Tail(records))

\* the prefixes of the records whose service is the CloudFront label, trimmed
RECURSIVE CloudfrontPrefixes(_)
CloudfrontPrefixes(records) ==
    IF records = <<>> THEN <<>>
    ELSE (IF Head(records).service = awsCloudfrontLabel
          THEN <<TrimSpace(Head(records).prefix)>>
          ELSE <<>>) \o CloudfrontPrefixes(Tail(records))

CloudfrontV4(p, ranges, payload, reqs) ==
    IF Len(ranges) = 0 THEN Failed("cloudfront: empty IPv4 prefix set", reqs)
    ELSE IF p.whitelistIPv6
    THEN Fetched(ranges \o CloudfrontPrefixes(payload.ipv6_prefixes), reqs)
    ELSE Fetched(ranges, reqs)

CloudfrontDecoded(p, decoded, reqs) ==
    IF ~decoded.ok THEN Failed("cloudfront: invalid JSON", reqs)
    ELSE CloudfrontV4(p, CloudfrontPrefixes(decoded.payload.prefixes), decoded.payload, reqs)

CloudfrontResponse(p, r, reqs) ==
    IF r.err # "nil" THEN Failed(r.err, reqs)
    ELSE CloudfrontDecoded(p, Unmarshal(r.body), reqs)

fetchCloudfrontRanges(p, done, world) ==
    CloudfrontResponse(p, httpGet(done, world, awsIPRangesEndpoint), <<awsIPRangesEndpoint>>)

CustomCidr(ipv4, cidr, reqs) ==
    IF cidr.err # "nil" THEN Failed(cidr.err, reqs)
    ELSE Fetched(<<ipv4, cidr.cidr>>, reqs)

CustomV6Text(ipv4, ipv6, reqs) ==
    IF ParseIP(ipv6) = nilIP THEN Failed("custom provider: invalid IPv6 response", reqs)
    ELSE CustomCidr(ipv4, ipv6ToCIDR(ipv6), reqs)

CustomV6(ipv4, r6, reqs) ==
    IF r6.err # "nil" THEN Failed(r6.err, reqs)
    ELSE CustomV6Text(ipv4, TrimSpace(r6.body.text), reqs)

CustomV4Text(p, done, world, ipv4, reqs) ==
    IF ParseIP(ipv4) = nilIP THEN Failed("custom provider: invalid IPv4 response", reqs)
    ELSE IF ~p.whitelistIPv6 THEN Fetched(<<ipv4>>, reqs)
    ELSE IF TrimSpace(p.ipv6Resolver) = <<>>
    THEN Failed("custom provider requires an ipv6Resolver when whitelistIPv6 is true", reqs)
    ELSE CustomV6(ipv4, httpGet(done, world, p.ipv6Resolver), Append(reqs, p.ipv6Resolver))

CustomV4(p, done, world, r4, reqs) ==
    IF r4.err # "nil" THEN Failed(r4.err, reqs)
    ELSE CustomV4Text(p, done, world, TrimSpace(r4.body.text), reqs)

fetchCustomRanges(p, done, world) ==
    IF TrimSpace(p.ipv4Resolver) = <<>>
    THEN Failed("custom provider requires an ipv4Resolver", <<>>)
    ELSE CustomV4(p, done, world, httpGet(done, world, p.ipv4Resolver), <<p.ipv4Resolver>>)

fetchProviderRanges(p, done, world) ==
    IF p.providerName = providerCloudflare THEN fetchCloudflareRanges(p, done, world)
    ELSE IF p.providerName = providerFastly THEN fetchFastlyRanges(p, done, world)
    ELSE IF p.providerName = providerCloudfront THEN fetchCloudfrontRanges(p, done, world)
    ELSE IF p.providerName = providerCustom THEN fetchCustomRanges(p, done, world)
    ELSE Failed("unsupported provider", <<>>)

\* a slip: the provider ranges come first
CombineProviderFirst(p, fetched) ==
    IF fetched.err # "nil" THEN fetched
    ELSE IF Len(fetched.ranges \o p.additionalSourceRange) = 0
    THEN Failed("no source ranges resolved", fetched.requests)
    ELSE Fetched(fetched.ranges \o p.additionalSourceRange, fetched.requests)

\* buildSourceRanges once the provider ranges are fetched
Combine(p, fetched) ==
    IF fetched.err # "nil" THEN fetched
    ELSE IF Len(p.additionalSourceRange \o fetched.ranges) = 0
    THEN Failed("no source ranges resolved", fetched.requests)
    ELSE Fetched(p.additionalSourceRange \o fetched.ranges, fetched.requests)

buildSourceRanges(p, done, world) == Combine(p, fetchProviderRanges(p, done, world))

\* generateConfiguration once the source ranges are built: the middleware entry
\* of the configuration, or the error (the other tables of the envelope are empty)
Configuration(p, built) ==
    [err         |-> built.err,
     sourceRange |-> built.ranges,
     ipStrategy  |-> IF built.err = "nil" THEN p.ipStrategy ELSE 0,
     requests    |-> built.requests]

generateConfiguration(p, done, world) == Configuration(p, buildSourceRanges(p, done, world))

(***************************************************************************)
(* what the remote endpoints may answer                                    *)
(***************************************************************************)

A4 == <<"198.51.100.0/24">>
B4 == <<"203.0.113.0/25">>
A6 == <<"2001:db8::/32">>
B6 == <<"2001:db8:1::/48">>

V4Ranges == {A4, B4}
V6Ranges == {A6, B6}

LineBodies(a, b) ==
    { <<>>, <<"\n">>, <<" ", "\n", "\t">>,
      a, a \o <<"\n">> \o b, a \o <<"\n">> \o a,
      <<" ">> \o b \o <<" ", "\n", "\n">> \o a \o <<"\r", "\n">> }

\* answers of one endpoint: no answer, statuses around the 2xx range, bodies
Answers(bodies, sample) ==
    {Unreachable}
      \cup { Status(code, sample) : code \in {199, 299, 300, 404, 500} }
      \cup { Status(200, b) : b \in bodies }

UrlsKnown ==
    {cloudflareIPv4Endpoint, cloudflareIPv6Endpoint, fastlyEndpoint, awsIPRangesEndpoint,
     Resolver4, Resolver6}

Offline == [u \in UrlsKnown |-> Unreachable]

CloudflareWorlds ==
    { [Offline EXCEPT ![cloudflareIPv4Endpoint] = r4, ![cloudflareIPv6Endpoint] = r6] :
        r4 \in Answers({TextBody(b) : b \in LineBodies(A4, B4)}, TextBody(A4)),
        r6 \in Answers({TextBody(b) : b \in LineBodies(A6, B6)}, TextBody(A6)) }

FastlyDocs ==
    { [EmptyDoc EXCEPT !.addresses = a, !.ipv6_addresses = b] :
        a \in {<<>>, <<A4>>, <<A4, B4>>, <<B4, B4>>},
        b \in {<<>>, <<A6>>, <<B6, A6>>} }

FastlyWorlds ==
    { [Offline EXCEPT ![fastlyEndpoint] = r] :
        r \in Answers({JsonBody(d) : d \in FastlyDocs} \cup {TextBody(A4)},
                      JsonBody([EmptyDoc EXCEPT !.addresses = <<A4>>])) }

Rec(prefix, service) == [prefix |-> prefix, service |-> service]

PrefixLists(a, b) ==
    { <<>>, <<Rec(a, "CLOUDFRONT")>>, <<Rec(b, "EC2")>>, <<Rec(a, "cloudfront")>>,
      <<Rec(b, "EC2"), Rec(a, "CLOUDFRONT")>>,
      <<Rec(<<" ">> \o b \o <<"\n">>, "CLOUDFRONT"), Rec(a, "AMAZON"), Rec(a, "CLOUDFRONT")>> }

CloudfrontDocs ==
    { [EmptyDoc EXCEPT !.prefixes = a, !.ipv6_prefixes = b] :
        a \in PrefixLists(A4, B4), b \in PrefixLists(A6, B6) }

CloudfrontWorlds ==
    { [Offline EXCEPT ![awsIPRangesEndpoint] = r] :
        r \in Answers({JsonBody(d) : d \in CloudfrontDocs} \cup {TextBody(<<>>)},
                      JsonBody([EmptyDoc EXCEPT !.prefixes = <<Rec(A4, "CLOUDFRONT")>>])) }

Addr4      == <<"1", ".", "0", ".", "255", ".", "1">>
Addr6      == <<"ffff", ":", "1", ":", "0", ":", "ff", ":", "1", ":", "0", ":", "0", ":", "101">>
Addr6Short == <<"1", "::", "ff00", ":", "1">>
AddrMapped == <<"::", "ffff", ":", "1", ".", "0", ".", "255", ".", "1">>
Junk       == <<"<html>">>

ResolverBodies4 ==
    { <<>>, Junk, Addr4, <<" ">> \o Addr4 \o <<"\n">>, Addr4 \o <<"\n">> \o Addr4,
      Addr6, AddrMapped }

ResolverBodies6 ==
    { <<>>, Junk, Addr6, <<"\t">> \o Addr6Short \o <<"\r", "\n">>, <<"::">>,
      Addr4, AddrMapped }

CustomWorlds ==
    { [Offline EXCEPT ![Resolver4] = r4, ![Resolver6] = r6] :
        r4 \in Answers({TextBody(b) : b \in ResolverBodies4}, TextBody(Addr4)),
        r6 \in Answers({TextBody(b) : b \in ResolverBodies6}, TextBody(Addr6)) }

\* the worlds that matter to provider p
Worlds(p) ==
    IF p.providerName = providerCloudflare THEN CloudflareWorlds
    ELSE IF p.providerName = providerFastly THEN FastlyWorlds
    ELSE IF p.providerName = providerCloudfront THEN CloudfrontWorlds
    ELSE CustomWorlds

(***************************************************************************)
(* ipv6ToCIDR on its own: the inputs, each with what it denotes            *)
(***************************************************************************)

InGroups == {0, 1, 65535}
InBytes  == {0, 1, 255}

RECURSIVE JoinGroups(_)
JoinGroups(g) ==
    IF g = <<>> THEN <<>>
    ELSE IF Len(g) = 1 THEN <<HexText(g[1])>>
    ELSE <<HexText(g[1]), ":">> \o JoinGroups(Tail(g))

DottedText(b) == <<DecText(b[1]), ".", DecText(b[2]), ".", DecText(b[3]), ".", DecText(b[4])>>

IsMapped(g) == SubSeq(g, 1, 6) = v4InV6Prefix

ClassOf(g) == IF IsMapped(g) THEN "mapped" ELSE "v6"

\* all eight groups written out
FullInputs ==
    { [text |-> JoinGroups(g), class |-> ClassOf(g), groups |-> g] :
        g \in [1..IPv6Groups -> InGroups] }

ShortLists == {<<>>} \cup [1..1 -> InGroups] \cup [1..2 -> InGroups]

\* some groups, "::", some groups
EllipsisInputs ==
    { LET g == l \o Zeros(IPv6Groups - Len(l) - Len(r)) \o r
      IN  [text |-> JoinGroups(l) \o <<"::">> \o JoinGroups(r), class |-> ClassOf(g),
           groups |-> g] :
        l \in ShortLists, r \in ShortLists }

DottedInputs ==
    { [text |-> DottedText(b), class |-> "v4", groups |-> IPv4(b[1], b[2], b[3], b[4])] :
        b \in [1..4 -> InBytes] }

MappedInputs ==
    { [text |-> <<"::", "ffff", ":">> \o DottedText(b), class |-> "mapped",
       groups |-> IPv4(b[1], b[2], b[3], b[4])] :
        b \in [1..4 -> InBytes] }

InvalidTexts ==
    { <<>>, Junk, <<"1">>, <<":">>, <<"1", ":", "1">>, <<"1", ".", "1", ".", "1">>,
      <<"1", "::", "1", "::", "1">>, <<" ">> \o Addr6, Addr6 \o <<"\n">>,
      Addr6 \o <<":", "1">>, Addr6 \o <<"%", "eth0">>, Addr6 \o <<"/", "6", "4">>,
      <<"1", "::">> \o SubSeq(Addr6, 3, Len(Addr6)),
      Addr4 \o <<"::">>, <<"1", ":", "1", ":", "1", ":", "1", ":", "1", ":", "1", ":">> \o Addr4 \o <<":", "1">> }

InvalidInputs == { [text |-> t, class |-> "invalid", groups |-> nilIP] : t \in InvalidTexts }

CidrInputs == FullInputs \cup EllipsisInputs \cup DottedInputs \cup MappedInputs \cup InvalidInputs

NoCidr == [called |-> FALSE, cidr |-> <<>>, err |-> "nil"]

\* the address part of "<address>/64"
NetworkAddress(cidr) == SubSeq(cidr, 1, Len(cidr) - 1 - Len(MaskSizeText))

(***************************************************************************)
(* the parts of the state a specification leaves alone                     *)
(***************************************************************************)

FixedConfig ==
    [Provider |-> providerCloudflare, PollInterval |-> <<"1", "s">>,
     IPv4Resolver |-> Resolver4, IPv6Resolver |-> Resolver6, WhitelistIPv6 |-> TRUE,
     AdditionalSourceRange |-> <<>>, IPStrategy |-> 0]

NotCalled == [called |-> FALSE, err |-> "nil", provider |-> NoProvider]

NoResult == [err |-> "nil", sourceRange |-> <<>>, ipStrategy |-> 0, requests |-> <<>>]

NoRefresh == [n |-> 0, done |-> FALSE, world |-> Offline, result |-> NoResult]

IdleNew     == config = FixedConfig /\ newResult = NotCalled
IdleCidr    == cidrIn = [text |-> <<>>, class |-> "invalid", groups |-> nilIP]
               /\ cidrOut = NoCidr /\ cidrAgain = NoCidr
IdleRefresh == provider = NoProvider /\ refresh = NoRefresh

(***************************************************************************)
(* Provide, loadConfiguration, emitConfiguration, Stop                     *)
(***************************************************************************)

MaxAttempts == 2
MaxReceived == 2

\* the goroutines of a first Provide call and of a second one, which overwrites
\* p.cancel; the loops share nothing but cfgChan
Loops == {1, 2}

NoPayload == [sourceRange |-> <<>>, ipStrategy |-> 0]

\* a slip: the return after the log line is missing, the nil configuration is sent
EmitOutcomeNoReturn(configuration) ==
    IF configuration.err # "nil"
    THEN [logged |-> configuration.err, send |-> TRUE, payload |-> NoPayload]
    ELSE [logged |-> "nil", send |-> TRUE,
          payload |-> [sourceRange |-> configuration.sourceRange,
                       ipStrategy  |-> configuration.ipStrategy]]

\* emitConfiguration once generateConfiguration returned: what it logs, and
\* what it goes on to send on cfgChan
EmitOutcome(configuration) ==
    IF configuration.err # "nil"
    THEN [logged |-> configuration.err, send |-> FALSE, payload |-> NoPayload]
    ELSE [logged |-> "nil", send |-> TRUE,
          payload |-> [sourceRange |-> configuration.sourceRange,
                       ipStrategy  |-> configuration.ipStrategy]]

emitConfiguration(prov, done, world) == EmitOutcome(generateConfiguration(prov, done, world))

\* a slip: p.cancel is called without the nil check
StopEffectUnguarded(c, done) ==
    IF c # 0
    THEN [ctxDone |-> [done EXCEPT ![c] = TRUE], result |-> "nil"]
    ELSE [ctxDone |-> done, result |-> "panic"]

\* Stop: what it makes of the contexts, and how it ends
StopEffect(c, done) ==
    IF c # 0
    THEN [ctxDone |-> [done EXCEPT ![c] = TRUE], result |-> "nil"]
    ELSE [ctxDone |-> done, result |-> "nil"]

\* the emitConfiguration calls loop i has begun or is about to begin
Begun(i) == attempts[i] + (IF pc[i] = "emit" THEN 1 ELSE 0)

\* the ticker of loop i has fired at least once
Fired(i) == Begun(i) > 1 \/ tickPending[i]

\* the few answers of the endpoints the loop is run against
CloudflareLoopWorlds ==
    { [Offline EXCEPT ![cloudflareIPv4Endpoint] = Status(500, TextBody(A4))],
      [Offline EXCEPT ![cloudflareIPv4Endpoint] = Status(200, TextBody(<<"\n">>))],
      [Offline EXCEPT ![cloudflareIPv4Endpoint] = Status(200, TextBody(A4)),
                      ![cloudflareIPv6Endpoint] = Status(200, TextBody(A6))],
      [Offline EXCEPT ![cloudflareIPv4Endpoint] = Status(200, TextBody(B4)),
                      ![cloudflareIPv6Endpoint] = Status(200, TextBody(<<>>))] }

CustomLoopWorlds ==
    { [Offline EXCEPT ![Resolver4] = Status(200, TextBody(Addr4)),
                      ![Resolver6] = Status(200, TextBody(Addr6))],
      [Offline EXCEPT ![Resolver4] = Status(200, TextBody(Addr4)),
                      ![Resolver6] = Status(200, TextBody(Addr6Short))],
      [Offline EXCEPT ![Resolver4] = Status(200, TextBody(Addr4)),
                      ![Resolver6] = Status(200, TextBody(Addr4))],
      [Offline EXCEPT ![Resolver4] = Status(404, TextBody(Junk))] }

LoopWorlds(prov) ==
    IF prov.providerName = providerCloudflare THEN CloudflareLoopWorlds ELSE CustomLoopWorlds

LoopConfigs ==
    { FixedConfig,
      [FixedConfig EXCEPT !.Provider = providerCustom,
                          !.AdditionalSourceRange = <<Static1, Static2>>,
                          !.IPStrategy = 1] }

\* what emitConfiguration may come to, for each state of the context
EmitOutcomes[prov \in {New(c).provider : c \in LoopConfigs}, done \in BOOLEAN] ==
    { emitConfiguration(prov, done, world) : world \in LoopWorlds(prov) }

IdleLoop ==
    /\ cancel = 0
    /\ ctxDone = [i \in Loops |-> FALSE]
    /\ pc = [i \in Loops |-> "none"]
    /\ pending = [i \in Loops |-> NoPayload]
    /\ tickPending = [i \in Loops |-> FALSE]
    /\ attempts = [i \in Loops |-> 0]
    /\ logged = "nil"
    /\ earlyStop = [i \in Loops |-> FALSE]
    /\ delivered = <<>>
    /\ received = NoPayload
    /\ consumer = "receiving"
    /\ stopResult = "none"

Init ==
    /\ config \in LoopConfigs
    /\ newResult = [called |-> TRUE] @@ New(config)
    /\ provider = newResult.provider
    /\ refresh = NoRefresh
    /\ IdleCidr
    /\ IdleLoop

\* Provide: a new context, p.cancel overwritten, the goroutine started
Provide ==
    /\ \E i \in Loops :
        /\ pc[i] = "none"
        /\ \A j \in Loops : j < i => pc[j] # "none"
        /\ cancel' = i
        /\ pc' = [pc EXCEPT ![i] = "emit"]
    /\ UNCHANGED <<ctxDone, pending, tickPending, attempts, logged, earlyStop, delivered,
                   received, consumer, stopResult>>
    /\ UNCHANGED <<newVars, cidrVars, refreshVars>>

\* a slip: loadConfiguration returns when a refresh fails
EmitEndsOnError(i) ==
    /\ pc[i] = "emit"
    /\ \E e \in EmitOutcomes[provider, ctxDone[i]] :
        /\ logged' = e.logged
        /\ pending' = [pending EXCEPT ![i] = e.payload]
        /\ pc' = [pc EXCEPT ![i] = IF e.send THEN "send" ELSE "exited"]
    /\ attempts' = [attempts EXCEPT ![i] = @ + 1]
    /\ UNCHANGED <<cancel, ctxDone, tickPending, earlyStop, delivered, received, consumer,
                   stopResult>>
    /\ UNCHANGED <<newVars, cidrVars, refreshVars>>

\* the refresh of emitConfiguration, up to the send on cfgChan
Emit(i) ==
    /\ pc[i] = "emit"
    /\ \E e \in EmitOutcomes[provider, ctxDone[i]] :
        /\ logged' = e.logged
        /\ pending' = [pending EXCEPT ![i] = e.payload]
        /\ pc' = [pc EXCEPT ![i] = IF e.send THEN "send" ELSE "select"]
    /\ attempts' = [attempts EXCEPT ![i] = @ + 1]
    /\ UNCHANGED <<cancel, ctxDone, tickPending, earlyStop, delivered, received, consumer,
                   stopResult>>
    /\ UNCHANGED <<newVars, cidrVars, refreshVars>>

\* cfgChan <- payload completes when the consumer receives; the consumer
\* reads MaxReceived values at most and then is gone
Deliver(i) ==
    /\ pc[i] = "send"
    /\ consumer = "receiving"
    /\ delivered' = Append(delivered, [loop |-> i, attempt |-> attempts[i]])
    /\ received' = pending[i]
    /\ consumer' = IF Len(delivered') >= MaxReceived THEN "gone" ELSE "receiving"
    /\ pc' = [pc EXCEPT ![i] = "select"]
    /\ pending' = [pending EXCEPT ![i] = NoPayload]
    /\ UNCHANGED <<cancel, ctxDone, tickPending, attempts, logged, earlyStop, stopResult>>
    /\ UNCHANGED <<newVars, cidrVars, refreshVars>>

\* the ticker of loop i fires (it exists from the start of loadConfiguration
\* until its return)
TickFire(i) ==
    /\ pc[i] \in {"emit", "send", "select"}
    /\ ~tickPending[i]
    /\ Begun(i) < MaxAttempts
    /\ tickPending' = [tickPending EXCEPT ![i] = TRUE]
    /\ UNCHANGED <<cancel, ctxDone, pc, pending, attempts, logged, earlyStop, delivered,
                   received, consumer, stopResult>>
    /\ UNCHANGED <<newVars, cidrVars, refreshVars>>

\* a slip: the tick is looked at and left in ticker.C
TakeTickKeepsTick(i) ==
    /\ pc[i] = "select"
    /\ tickPending[i]
    /\ pc' = [pc EXCEPT ![i] = "emit"]
    /\ UNCHANGED <<cancel, ctxDone, pending, tickPending, attempts, logged, earlyStop,
                   delivered, received, consumer, stopResult>>
    /\ UNCHANGED <<newVars, cidrVars, refreshVars>>

\* select: case <-ticker.C
TakeTick(i) ==
    /\ pc[i] = "select"
    /\ tickPending[i]
    /\ tickPending' = [tickPending EXCEPT ![i] = FALSE]
    /\ pc' = [pc EXCEPT ![i] = "emit"]
    /\ UNCHANGED <<cancel, ctxDone, pending, attempts, logged, earlyStop, delivered,
                   received, consumer, stopResult>>
    /\ UNCHANGED <<newVars, cidrVars, refreshVars>>

\* select: case <-ctx.Done(), return (the deferred ticker.Stop runs)
ObserveDone(i) ==
    /\ pc[i] = "select"
    /\ ctxDone[i]
    /\ pc' = [pc EXCEPT ![i] = "exited"]
    /\ tickPending' = [tickPending EXCEPT ![i] = FALSE]
    /\ UNCHANGED <<cancel, ctxDone, pending, attempts, logged, earlyStop, delivered,
                   received, consumer, stopResult>>
    /\ UNCHANGED <<newVars, cidrVars, refreshVars>>

Stop ==
    /\ LET s == StopEffect(cancel, ctxDone)
       IN  /\ ctxDone' = s.ctxDone
           /\ stopResult' = s.result
           /\ earlyStop' = [i \in Loops |->
                               IF s.ctxDone[i] /\ ~ctxDone[i] THEN ~Fired(i) ELSE earlyStop[i]]
    /\ UNCHANGED <<cancel, pc, pending, tickPending, attempts, logged, delivered, received,
                   consumer>>
    /\ UNCHANGED <<newVars, cidrVars, refreshVars>>

\* the consumer stops reading cfgChan
ConsumerLeaves ==
    /\ consumer = "receiving"
    /\ consumer' = "gone"
    /\ UNCHANGED <<cancel, ctxDone, pc, pending, tickPending, attempts, logged, earlyStop,
                   delivered, received, stopResult>>
    /\ UNCHANGED <<newVars, cidrVars, refreshVars>>

LoopStep(i) == Emit(i) \/ TakeTick(i) \/ ObserveDone(i)

Next ==
    \/ Provide
    \/ Stop
    \/ ConsumerLeaves
    \/ \E i \in Loops : Emit(i)
    \/ \E i \in Loops : Deliver(i)
    \/ \E i \in Loops : TickFire(i)
    \/ \E i \in Loops : TakeTick(i)
    \/ \E i \in Loops : ObserveDone(i)

Spec == Init /\ [][Next]_vars

\* the goroutines are scheduled, and a consumer that is receiving receives
FairSpec ==
    /\ Spec
    /\ \A i \in Loops : WF_vars(LoopStep(i))
    /\ \A i \in Loops : WF_vars(Deliver(i))

(***************************************************************************)
(* New on its own                                                          *)
(***************************************************************************)

InitNew ==
    /\ config \in Configs
    /\ newResult = NotCalled
    /\ IdleCidr /\ IdleRefresh /\ IdleLoop

CallNew ==
    /\ ~newResult.called
    /\ newResult' = [called |-> TRUE] @@ New(config)
    /\ UNCHANGED <<config, cidrVars, refreshVars, loopVars>>

NextNew == CallNew

SpecNew == InitNew /\ [][NextNew]_vars

(***************************************************************************)
(* ipv6ToCIDR on its own                                                   *)
(***************************************************************************)

InitCidr ==
    /\ cidrIn \in CidrInputs
    /\ cidrOut = NoCidr
    /\ cidrAgain = NoCidr
    /\ IdleNew /\ IdleRefresh /\ IdleLoop

Convert ==
    /\ ~cidrOut.called
    /\ cidrOut' = [called |-> TRUE] @@ ipv6ToCIDR(cidrIn.text)
    /\ UNCHANGED <<cidrIn, cidrAgain, newVars, refreshVars, loopVars>>

ConvertAgain ==
    /\ cidrOut.called /\ cidrOut.err = "nil"
    /\ ~cidrAgain.called
    /\ cidrAgain' = [called |-> TRUE] @@ ipv6ToCIDR(NetworkAddress(cidrOut.cidr))
    /\ UNCHANGED <<cidrIn, cidrOut, newVars, refreshVars, loopVars>>

NextCidr == Convert \/ ConvertAgain

SpecCidr == InitCidr /\ [][NextCidr]_vars

(***************************************************************************)
(* GenerateConfiguration called in sequence on one provider                *)
(***************************************************************************)

MaxRefreshes == 2

RefreshConfigs ==
    { c \in Configs :
        /\ c.Provider \in supportedProviders
        /\ c.PollInterval = <<"1", "s">>
        /\ c.IPv4Resolver = Resolver4
        /\ c.IPv6Resolver = Resolver6
        /\ c.IPStrategy = 1 }

InitRefresh ==
    /\ config \in RefreshConfigs
    /\ newResult = [called |-> TRUE] @@ New(config)
    /\ provider = newResult.provider
    /\ refresh = NoRefresh
    /\ IdleCidr /\ IdleLoop

\* GenerateConfiguration(ctx)
GenerateConfiguration ==
    /\ refresh.n < MaxRefreshes
    /\ \E done \in BOOLEAN, world \in Worlds(provider) :
        refresh' = [n |-> refresh.n + 1, done |-> done, world |-> world,
                    result |-> generateConfiguration(provider, done, world)]
    /\ UNCHANGED <<provider, newVars, cidrVars, loopVars>>

NextRefresh == GenerateConfiguration

SpecRefresh == InitRefresh /\ [][NextRefresh]_vars

(***************************************************************************)
(* The claims.                                                             *)
(***************************************************************************)

\* what the endpoints of the configured provider hold: the IPv4 part ...
V4Part(c, world) ==
    IF c.Provider = providerCloudflare
    THEN parseLineList(world[cloudflareIPv4Endpoint].body.text)
    ELSE IF c.Provider = providerFastly THEN world[fastlyEndpoint].body.doc.addresses
    ELSE IF c.Provider = providerCloudfront
    THEN CloudfrontPrefixes(world[awsIPRangesEndpoint].body.doc.prefixes)
    ELSE <<TrimSpace(world[c.IPv4Resolver].body.text)>>

\* ... and the IPv6 part
V6Part(c, world) ==
    IF c.Provider = providerCloudflare
    THEN parseLineList(world[cloudflareIPv6Endpoint].body.text)
    ELSE IF c.Provider = providerFastly THEN world[fastlyEndpoint].body.doc.ipv6_addresses
    ELSE IF c.Provider = providerCloudfront
    THEN CloudfrontPrefixes(world[awsIPRangesEndpoint].body.doc.ipv6_prefixes)
    ELSE <<ipv6ToCIDR(TrimSpace(world[c.IPv6Resolver].body.text)).cidr>>

Refreshed == refresh.n > 0

RefreshOK == Refreshed /\ refresh.result.err = "nil"

\* C1: every successful refresh yields the configured additionalSourceRange
\* entries, verbatim and in order, followed by the IPv4 ranges of the provider and
\* then (with whitelistIPv6) its IPv6 ranges, nothing dropped, merged or moved;
\* this is so for each refresh of a sequence, and the provider keeps its static list.
C1_StaticThenProvider ==
    /\ provider.additionalSourceRange = config.AdditionalSourceRange
    /\ RefreshOK =>
         refresh.result.sourceRange =
           config.AdditionalSourceRange
             \o V4Part(config, refresh.world)
             \o (IF config.WhitelistIPv6 THEN V6Part(config, refresh.world) ELSE <<>>)

C1_Witness ==
    /\ RefreshOK
    /\ refresh.n = MaxRefreshes
    /\ config.WhitelistIPv6
    /\ Len(config.AdditionalSourceRange) = 3
    /\ config.AdditionalSourceRange[1] \in
         { V4Part(config, refresh.world)[i] : i \in 1..Len(V4Part(config, refresh.world)) }
    /\ Len(V4Part(config, refresh.world)) = 2
    /\ Len(V6Part(config, refresh.world)) = 2

\* the URLs an IPv6 request of the configured provider goes to
V6Urls == {cloudflareIPv6Endpoint, config.IPv6Resolver}

Elements(seq) == { seq[i] : i \in 1..Len(seq) }

\* C7: with whitelistIPv6 false a refresh requests no IPv6 endpoint or resolver,
\* and what it yields holds the static ranges and the IPv4 part only: no entry of
\* the IPv6 field or endpoint.
C7_NoIPv6WhenDisabled ==
    (Refreshed /\ ~config.WhitelistIPv6) =>
        /\ Elements(refresh.result.requests) \cap V6Urls = {}
        /\ RefreshOK =>
             /\ refresh.result.sourceRange =
                  config.AdditionalSourceRange \o V4Part(config, refresh.world)
             /\ Elements(refresh.result.sourceRange)
                  \cap Elements(V6Part(config, refresh.world)) = {}

C7_Witness ==
    /\ RefreshOK
    /\ ~config.WhitelistIPv6
    /\ config.Provider = providerFastly
    /\ Len(refresh.world[fastlyEndpoint].body.doc.ipv6_addresses) = 2

\* the first endpoint of the configured named publisher answered, and what it
\* holds has no IPv4 range
FirstUrl ==
    IF config.Provider = providerCloudflare THEN cloudflareIPv4Endpoint
    ELSE IF config.Provider = providerFastly THEN fastlyEndpoint
    ELSE awsIPRangesEndpoint

Answered(resp) == ~resp.fail /\ resp.status >= 200 /\ resp.status < 300

EmptyProviderResult ==
    /\ Refreshed
    /\ ~refresh.done
    /\ config.Provider # providerCustom
    /\ Answered(refresh.world[FirstUrl])
    /\ config.Provider # providerCloudflare => refresh.world[FirstUrl].body.kind = "json"
    /\ V4Part(config, refresh.world) = <<>>

EmptyResultErrors ==
    {"cloudflare: empty IPv4 range list", "fastly: empty IPv4 addresses list",
     "cloudfront: empty IPv4 prefix set"}

\* C8 as stated: with no static ranges an empty provider result fails with the
\* no-ranges-resolved error of buildSourceRanges, and with static ranges it is
\* published (the static ranges alone).
C8_OnlyEmptyCombinedIsFatal ==
    EmptyProviderResult =>
        IF config.AdditionalSourceRange = <<>>
        THEN refresh.result.err = "no source ranges resolved"
        ELSE refresh.result.err = "nil"
             /\ refresh.result.sourceRange = config.AdditionalSourceRange

\* C8, amended: an empty IPv4 result of the provider fails the refresh with the
\* provider's own empty-result error, with or without static ranges, and yields no
\* configuration; the no-ranges-resolved check of buildSourceRanges never fails a
\* refresh, since a provider that succeeds returns at least one range.
C8_EmptyProviderResultIsFatal ==
    /\ EmptyProviderResult =>
         /\ refresh.result.err \in EmptyResultErrors
         /\ refresh.result.sourceRange = <<>>
    /\ Refreshed => refresh.result.err # "no source ranges resolved"
    /\ RefreshOK => Len(refresh.result.sourceRange) > Len(config.AdditionalSourceRange)

C8_Witness ==
    /\ EmptyProviderResult
    /\ config.AdditionalSourceRange # <<>>
    /\ refresh.result.err \in EmptyResultErrors

\* the provider setting names one of the four providers, in any case and with
\* white space around it
KnownNames ==
    { <<"c","l","o","u","d","f","l","a","r","e">>, <<"f","a","s","t","l","y">>,
      <<"c","l","o","u","d","f","r","o","n","t">>, <<"c","u","s","t","o","m">> }

NamesKnownProvider(name) == ToLower(TrimSpace(name)) \in KnownNames

Blank(text) == \A i \in 1..Len(text) : text[i] \in Space

ResolversGiven(c) ==
    ToLower(TrimSpace(c.Provider)) = <<"c","u","s","t","o","m">> =>
        /\ ~Blank(c.IPv4Resolver)
        /\ c.WhitelistIPv6 => ~Blank(c.IPv6Resolver)

\* the pollInterval settings of the model that are blank or Go durations
\* (of any sign)
IntervalsAccepted ==
    { <<>>, <<" ">>, <<"1","s">>, <<"1","0","m">>, <<"1","m","3","0","s">>,
      <<"0","s">>, <<"0">>, <<"-","5","s">> }

\* C3 as stated: New succeeds exactly when the provider name is known and the
\* resolvers the custom provider needs are given; no other field decides.
C3_ProviderAndResolversDecide ==
    newResult.called =>
        (newResult.err = "nil" <=> NamesKnownProvider(config.Provider) /\ ResolversGiven(config))

\* C3, amended: New succeeds exactly when pollInterval is blank or parses as a
\* duration, the provider name is known, and the resolvers the custom provider
\* needs are given (not blank); additionalSourceRange, ipStrategy and the sign of
\* the interval do not decide.
C3_NewSucceedsIff ==
    newResult.called =>
        (newResult.err = "nil" <=>
            /\ config.PollInterval \in IntervalsAccepted
            /\ NamesKnownProvider(config.Provider)
            /\ ResolversGiven(config))

C3_Witness ==
    /\ newResult.called
    /\ newResult.err = "nil"
    /\ newResult.provider.providerName = providerCustom
    /\ config.Provider # providerCustom
    /\ config.WhitelistIPv6
    /\ config.PollInterval = <<"-","5","s">>

\* the provider setting is a comma-separated list of known provider names
IsProviderList(name) ==
    \A i \in 1..Len(Split(name, ",")) : NamesKnownProvider(Split(name, ",")[i])

ListsCustom(name) ==
    \E i \in 1..Len(Split(name, ",")) :
        ToLower(TrimSpace(Split(name, ",")[i])) = <<"c","u","s","t","o","m">>

\* C9: New succeeds for a provider setting that is one known name or a
\* comma-separated mix of known names (given a valid pollInterval and, when custom
\* is listed, its resolvers).
C9_ProviderListAccepted ==
    ( /\ newResult.called
      /\ IsProviderList(config.Provider)
      /\ config.PollInterval \in IntervalsAccepted
      /\ ListsCustom(config.Provider) =>
            ~Blank(config.IPv4Resolver) /\ ~Blank(config.IPv6Resolver) )
    => newResult.err = "nil"

\* the address of cidrIn with its low 64 bits cleared
HighHalf == [i \in 1..8 |-> IF i <= 4 THEN cidrIn.groups[i] ELSE 0]

\* C10: ipv6ToCIDR fails on what is no IP address, on an IPv4 address and on an
\* IPv4-mapped IPv6 address; for any other address it returns the text of the
\* address with its low 64 bits cleared, then "/64"; and applied to the network
\* address of its result it returns that result again.
C10_Ipv6ToCIDR ==
    /\ cidrOut.called =>
         IF cidrIn.class = "v6"
         THEN /\ cidrOut.err = "nil"
              /\ Len(cidrOut.cidr) > 3
              /\ SubSeq(cidrOut.cidr, Len(cidrOut.cidr) - 2, Len(cidrOut.cidr)) = <<"/", "6", "4">>
              /\ ParseIP(SubSeq(cidrOut.cidr, 1, Len(cidrOut.cidr) - 3)) = HighHalf
         ELSE cidrOut.err # "nil" /\ cidrOut.cidr = <<>>
    /\ cidrAgain.called => cidrAgain = cidrOut

C10_Witness ==
    /\ cidrAgain.called
    /\ cidrIn.class = "v6"
    /\ cidrIn.groups[1] = 0
    /\ cidrIn.groups[4] = 65535
    /\ cidrIn.groups[6] = 65535
    /\ cidrIn.groups[8] = 1

\* the configurations a refresh of the provider can succeed with
SucceededPayloads[prov \in {New(c).provider : c \in LoopConfigs}] ==
    { [sourceRange |-> g.sourceRange, ipStrategy |-> g.ipStrategy] :
        g \in { h \in { generateConfiguration(prov, d, w) :
                          d \in BOOLEAN, w \in LoopWorlds(prov) } : h.err = "nil" } }

\* loop i ends a refresh in this step, and the refresh failed
RefreshFails(i) ==
    /\ pc[i] = "emit"
    /\ attempts'[i] = attempts[i] + 1
    /\ logged' # "nil"

\* C2: a refresh that fails goes back to waiting with nothing to send and
\* leaves what was delivered as it was; every value offered to or received by the
\* consumer is the configuration of a refresh that succeeded.
C2_FailedRefreshSendsNothing ==
    /\ [](\A i \in Loops : pc[i] = "send" => pending[i] \in SucceededPayloads[provider])
    /\ [](delivered # <<>> => received \in SucceededPayloads[provider])
    /\ [][\A i \in Loops :
            RefreshFails(i) => /\ pc'[i] = "select"
                               /\ delivered' = delivered
                               /\ received' = received]_vars

C2_Witness ==
    \E i \in Loops :
        /\ \A j \in Loops \ {i} : pc[j] = "none"
        /\ attempts[i] = 2
        /\ pc[i] = "select"
        /\ logged # "nil"
        /\ delivered = <<[loop |-> i, attempt |-> 1]>>
        /\ received \in SucceededPayloads[provider]

\* C4: once the context of a loop is cancelled by Stop, the loop exits,
\* whatever it was doing.
C4_StoppedLoopExits == \A i \in Loops : ctxDone[i] ~> pc[i] = "exited"

\* C5 as stated: a loop stopped before its ticker fired for the first time
\* means a channel that never receives a configuration.
C5_EarlyStopZeroDeliveries ==
    (\E i \in Loops : earlyStop[i]) => delivered = <<>>

\* C5, amended: a loop stopped before its ticker fired for the first time
\* delivers at most the configuration of its immediate first refresh; no later
\* refresh of that loop delivers.
C5_EarlyStopOnlyFirstRefresh ==
    \A i \in Loops :
        earlyStop[i] =>
            \A k \in 1..Len(delivered) : delivered[k].loop = i => delivered[k].attempt = 1

C5_Witness ==
    \E i \in Loops :
        /\ earlyStop[i]
        /\ pc[i] = "exited"
        /\ attempts[i] = 2
        /\ delivered = <<[loop |-> i, attempt |-> 1]>>

\* a step of Stop that is seen: it changes the contexts or what Stop returned
StopSeen == ctxDone' # ctxDone \/ stopResult' # stopResult

ResolverAnswered ==
    /\ Refreshed
    /\ ~refresh.done
    /\ config.Provider = providerCustom
    /\ Answered(refresh.world[config.IPv4Resolver])

ResolverText == TrimSpace(refresh.world[config.IPv4Resolver].body.text)

\* four decimal numbers of a byte each, with dots between them
IsIPv4Text(text) ==
    /\ Len(text) = 7
    /\ \A i \in {2, 4, 6} : text[i] = "."
    /\ \A i \in {1, 3, 5, 7} : \E e \in DecEntries : e.text = text[i]

\* C15: the trimmed answer of the IPv4 resolver is accepted only if it is an
\* IPv4 address; any other answer, an IPv6 address too, fails the refresh with the
\* invalid-IPv4 error and yields no range; an accepted address is published as it is.
C15_OnlyIPv4Accepted ==
    ResolverAnswered =>
        IF IsIPv4Text(ResolverText)
        THEN RefreshOK =>
               refresh.result.sourceRange[Len(config.AdditionalSourceRange) + 1] = ResolverText
        ELSE /\ refresh.result.err = "custom provider: invalid IPv4 response"
             /\ refresh.result.sourceRange = <<>>

\* the records that count: those whose service is the label, letter for letter
IsCloudfront(rec) == rec.service = "CLOUDFRONT"

Counted(records) ==
    [i \in 1..Len(SelectSeq(records, IsCloudfront)) |->
        TrimSpace(SelectSeq(records, IsCloudfront)[i].prefix)]

\* the IPv4 list and the IPv6 list of a named publisher, parsed and filtered
PublishedV4 ==
    IF config.Provider = providerCloudfront
    THEN Counted(refresh.world[awsIPRangesEndpoint].body.doc.prefixes)
    ELSE V4Part(config, refresh.world)

PublishedV6 ==
    IF config.Provider = providerCloudfront
    THEN Counted(refresh.world[awsIPRangesEndpoint].body.doc.ipv6_prefixes)
    ELSE V6Part(config, refresh.world)

\* every request of the refresh of a named publisher was answered with a
\* payload that decodes
WellFormed ==
    /\ Refreshed
    /\ ~refresh.done
    /\ config.Provider # providerCustom
    /\ Answered(refresh.world[FirstUrl])
    /\ config.Provider # providerCloudflare => refresh.world[FirstUrl].body.kind = "json"
    /\ (config.Provider = providerCloudflare /\ config.WhitelistIPv6 /\ PublishedV4 # <<>>)
          => Answered(refresh.world[cloudflareIPv6Endpoint])

\* C16: a refresh of a named publisher whose payload is well-formed fails
\* exactly when its IPv4 list, parsed and filtered, is empty; an empty IPv6 list is
\* no failure; for cloudfront only the records whose service is "CLOUDFRONT", in
\* this case of letters, make up either list.
C16_FailsIffEmptyIPv4 ==
    WellFormed =>
        /\ refresh.result.err # "nil" <=> PublishedV4 = <<>>
        /\ RefreshOK =>
             refresh.result.sourceRange =
               config.AdditionalSourceRange \o PublishedV4
                 \o (IF config.WhitelistIPv6 THEN PublishedV6 ELSE <<>>)

C16_Witness ==
    /\ WellFormed
    /\ RefreshOK
    /\ config.Provider = providerCloudfront
    /\ config.WhitelistIPv6
    /\ Len(refresh.world[awsIPRangesEndpoint].body.doc.prefixes) = 3
    /\ Len(PublishedV4) = 2
    /\ refresh.world[awsIPRangesEndpoint].body.doc.ipv6_prefixes = <<Rec(A6, "cloudfront")>>
    /\ PublishedV6 = <<>>

\* loop i begins a refresh in this step
RefreshBegins(i) == pc[i] # "emit" /\ pc'[i] = "emit"

\* loop i ends a refresh in this step
RefreshEnds(i) == attempts'[i] # attempts[i]

\* C11: a loop refreshes once on start, before it waits for anything, and
\* then once for each tick it takes; a refresh begins only when the one before it
\* has ended and handed over what it had to send; so the deliveries of a loop come
\* in the order of its refreshes, and each is the configuration just computed.
C11_OneRefreshPerTickInOrder ==
    /\ [](\A i \in Loops : pc[i] \in {"send", "select", "exited"} => attempts[i] >= 1)
    /\ [][\A i \in Loops :
            RefreshBegins(i) =>
                \/ pc[i] = "none" /\ attempts[i] = 0
                \/ pc[i] = "select" /\ tickPending[i] /\ ~tickPending'[i]]_vars
    /\ [][\A i \in Loops :
            RefreshEnds(i) => /\ attempts'[i] = attempts[i] + 1
                              /\ pc[i] = "emit"
                              /\ pc'[i] \in {"send", "select"}]_vars
    /\ [][delivered' # delivered =>
            \E i \in Loops :
                /\ pc[i] = "send"
                /\ delivered' = Append(delivered, [loop |-> i, attempt |-> attempts[i]])
                /\ received' = pending[i]]_vars
    /\ [](\A j, k \in 1..Len(delivered) :
            (j < k /\ delivered[j].loop = delivered[k].loop)
                => delivered[j].attempt < delivered[k].attempt)

C11_Witness ==
    \E i \in Loops :
        /\ attempts[i] = 2
        /\ delivered = <<[loop |-> i, attempt |-> 1], [loop |-> i, attempt |-> 2]>>
        /\ pc[i] = "select"

\* C12: a loop ends only once its context is cancelled, a failed refresh
\* takes it back to waiting; while it is not cancelled a tick that is pending is
\* taken, and a configuration it has to send is delivered if the consumer stays.
C12_FailureNeverEndsLoop ==
    /\ [](\A i \in Loops : pc[i] = "exited" => ctxDone[i])
    /\ [][\A i \in Loops : RefreshFails(i) => pc'[i] = "select"]_vars
    /\ \A i \in Loops :
         (pc[i] = "select" /\ tickPending[i] /\ ~ctxDone[i]) ~> (pc[i] = "emit" \/ ctxDone[i])
    /\ \A i \in Loops :
         pc[i] = "send" ~> (pc[i] = "select" \/ consumer = "gone")

C12_Witness ==
    \E i \in Loops :
        /\ delivered = <<[loop |-> i, attempt |-> 2]>>
        /\ ~ctxDone[i]
        /\ pc[i] = "select"
        /\ received \in SucceededPayloads[provider]

\* C13: a loop whose context is cancelled begins no refresh, whether or not
\* a tick is pending.
C13_NoRefreshOnceCancelled ==
    [][\A i \in Loops : ctxDone[i] => ~RefreshBegins(i)]_vars

Running(i) == pc[i] \in {"emit", "send", "select"}

\* C14: at most one loop of the provider runs at a time, and once Stop was
\* called after the last Provide every loop that was started is cancelled.
C14_OneLoopAndAllCancelled ==
    /\ Cardinality({i \in Loops : Running(i)}) <= 1
    /\ (cancel # 0 /\ ctxDone[cancel]) => \A i \in Loops : pc[i] # "none" => ctxDone[i]

====
